---- MODULE Spec2Model ----
(***************************************************************************)
(* Message dispatch (dataHandler) and the two submission workflows         *)
(* (processCreate, processScan) of the submission processor, with the      *)
(* helpers they call (moveFile, getreviewTypeId, downloadFile,             *)
(* reqToSubmissionAPI).  Every asynchronous call (a yield in the source)   *)
(* is one step of the model; the outcome of a call to S3, to the scan      *)
(* service or to the Submission API is chosen nondeterministically.        *)
(***************************************************************************)
EXTENDS Integers, Sequences, FiniteSets, TLC

(***************************************************************************)
(* Bounds of the model.                                                    *)
(***************************************************************************)
\* total number of messages published on the subscribed partitions
MaxMsgs == 2

(***************************************************************************)
(* Configuration values and program constants.                             *)
(***************************************************************************)
SUBMISSION_CREATE_TOPIC == "create-topic"
AVSCAN_TOPIC == "scan-topic"
DMZ_BUCKET == "dmz"
CLEAN_BUCKET == "clean"
QUARANTINE_BUCKET == "quarantine"
AV_SCAN == "Virus Scan"
REVIEW_SCORECARDID == "30001850"

Topics == {SUBMISSION_CREATE_TOPIC, AVSCAN_TOPIC}
Partitions == {0}
\* a subscription: <<topic, partition>>
TP == Topics \X Partitions
Buckets == {DMZ_BUCKET, CLEAN_BUCKET, QUARANTINE_BUCKET}

(***************************************************************************)
(* Message values.                                                         *)
(***************************************************************************)
Ids == {"abc123"}
ReviewTypeIds == {"rt1", "rt2"}

\* the object key `${id}.${fileType}`
Key(id, fileType) == <<id, fileType>>

\* a URL: host, and for S3 URLs the bucket and key
S3_HOST == "s3.amazonaws.com"
S3Url(bucket, key) == [host |-> S3_HOST, bucket |-> bucket, key |-> key]
Urls == { [host |-> "host", bucket |-> "", key |-> Key("file", "zip")],
          S3Url("uploads", Key("file", "zip")) }

HttpUrl == [host |-> "host", bucket |-> "", key |-> Key("file", "zip")]
\* the payloads of the create topic: a file submission with either kind of
\* URL, a submission by URL, and a review
CreatePayloads ==
    { [resource |-> "submission", id |-> i, fileType |-> "zip", url |-> u] :
        i \in Ids, u \in Urls }
    \cup { [resource |-> "submission", id |-> i, fileType |-> "url", url |-> HttpUrl] :
             i \in Ids }
    \cup { [resource |-> "review", id |-> i, fileType |-> "zip", url |-> HttpUrl] :
             i \in Ids }
\* the payloads of the scan topic: a completed scan with either verdict, and
\* a scan that is not completed
ScanPayloads ==
    { [submissionId |-> i, fileName |-> Key(i, "zip"), url |-> S3Url(DMZ_BUCKET, Key(i, "zip")),
       status |-> "scanned", isInfected |-> b] : i \in Ids, b \in BOOLEAN }
    \cup { [submissionId |-> i, fileName |-> Key(i, "zip"), url |-> S3Url(DMZ_BUCKET, Key(i, "zip")),
            status |-> "pending", isInfected |-> FALSE] : i \in Ids }
\* an envelope object that has no payload property
NoPayload == [undefined |-> TRUE]
PayloadsOf(topic) ==
    IF topic = SUBMISSION_CREATE_TOPIC THEN CreatePayloads ELSE ScanPayloads

\* The raw value of a message: text that is no JSON, the JSON text null,
\* or the JSON text of an object with a topic and (possibly) a payload.
Malformed == [kind |-> "malformed", topic |-> "", payload |-> NoPayload]
JsonNull == [kind |-> "null", topic |-> "", payload |-> NoPayload]
Envelopes(topic) ==
    { [kind |-> "object", topic |-> t, payload |-> p] :
        t \in {topic}, p \in PayloadsOf(topic) \cup {NoPayload} }
\* an envelope of another topic, with a payload that topic would process
Mismatched(topic) ==
    { [kind |-> "object", topic |-> t, payload |-> p] :
        t \in Topics \ {topic},
        p \in { q \in CreatePayloads : q.fileType = "zip" /\ q.url = HttpUrl
                                       /\ q.resource = "submission" }
             \cup { q \in ScanPayloads : q.status = "scanned" /\ ~q.isInfected } }
\* the values published on a topic
RawValues(topic) ==
    {Malformed, JsonNull} \cup Envelopes(topic)
    \cup { v \in Mismatched(topic) : v.payload \in PayloadsOf(v.topic) }

VARIABLES
    log,          \* broker: the messages of each partition, offset = index
    batch,        \* the offsets of the message set handed to dataHandler
    rejected,     \* the promise of dataHandler was rejected
    h,            \* handling of each message: position, outcome, calls, logs
    commits,      \* the consumer.commitOffset calls, in order
    s3,           \* the keys held by each bucket
    reviewTypes   \* the cache of review type ids

vars == <<log, batch, rejected, h, commits, s3, reviewTypes>>

Offsets(tp) == 1..Len(log[tp])
Range(s) == {s[i] : i \in DOMAIN s}

\* the handling of a message before it was ever handed to the handler
\* st: position of the handling; outcome: how it ended; ret: the value the
\* workflow returned; trace: the calls it made; logs: the levels it logged at;
\* typeId: the review type id held by processScan; prev: "filtered" when the
\* previous delivery of the message was filtered
Fresh == [st |-> "none", outcome |-> "none", ret |-> "none", trace |-> <<>>,
          logs |-> {}, typeId |-> "none", prev |-> "none"]

Init ==
    /\ \E nc \in 0..MaxMsgs : \E ns \in 0..(MaxMsgs - nc) :
         \E lc \in [1..nc -> RawValues(SUBMISSION_CREATE_TOPIC)],
            ls \in [1..ns -> RawValues(AVSCAN_TOPIC)] :
           log = [tp \in TP |-> IF tp[1] = SUBMISSION_CREATE_TOPIC THEN lc ELSE ls]
    /\ batch = [tp \in TP |-> {}]
    /\ rejected = [tp \in TP |-> FALSE]
    /\ h = [tp \in TP |-> [o \in Offsets(tp) |-> Fresh]]
    /\ commits = <<>>
    /\ s3 = [b \in Buckets |-> {}]
    /\ reviewTypes = [name \in {} |-> ""]

(***************************************************************************)
(* The broker client.                                                      *)
(***************************************************************************)
\* [mutant] the offset of the last message of the set is committed instead
CommitBatchEnd(tp, o) ==
    [topic |-> tp[1], partition |-> tp[2],
     offset |-> CHOOSE m \in batch[tp] : \A p \in batch[tp] : p <= m]

\* the record passed to consumer.commitOffset for the message at offset o
CommitRecord(tp, o) == [topic |-> tp[1], partition |-> tp[2], offset |-> o]

Committed(tp) ==
    {c.offset : c \in {d \in Range(commits) : d.topic = tp[1] /\ d.partition = tp[2]}}

\* The offset is the position "processed up to here" of a partition: a fetch
\* starts after the highest committed offset.
Position(tp) ==
    IF Committed(tp) = {} THEN 1
    ELSE 1 + (CHOOSE m \in Committed(tp) : \A c \in Committed(tp) : c <= m)

\* the handler of a message set has not resolved yet
Active(tp) ==
    /\ ~rejected[tp]
    /\ \E o \in batch[tp] : h[tp][o].st # "done"

\* A fetch is answered with the message sets of some subscriptions; each set
\* is handed to the subscription's handler, and the handlers of one response
\* run side by side.  The next fetch waits for them to resolve.
Poll(T) ==
    /\ T # {}
    /\ \A tp \in TP : ~Active(tp)
    /\ \A tp \in T : Position(tp) <= Len(log[tp])
    /\ batch' = [tp \in TP |-> IF tp \in T THEN Position(tp)..Len(log[tp]) ELSE {}]
    /\ h' = [tp \in TP |-> [o \in Offsets(tp) |->
               IF tp \in T /\ o >= Position(tp)
               THEN [Fresh EXCEPT !.st = "pending",
                                 !.prev = IF h[tp][o].outcome = "filtered"
                                          THEN "filtered" ELSE "none"]
               ELSE h[tp][o]]]
    /\ rejected' = [tp \in TP |-> FALSE]
    /\ UNCHANGED <<log, commits, s3, reviewTypes>>

(***************************************************************************)
(* dataHandler: the synchronous part of the callback of Promise.each.      *)
(***************************************************************************)
\* a property of an object, undefined when the object does not have it
Undefined == "undefined"
Field(obj, f) == IF f \in DOMAIN obj THEN obj[f] ELSE Undefined

\* [mutant] the envelope topic is not compared with the arrival topic
ClassifyNoTopicCheck(topic, v) ==
    IF v.kind = "malformed" THEN "decodeError"
    ELSE IF v.kind = "null" THEN "typeError"
    ELSE IF v.payload = NoPayload THEN "typeError"
    ELSE IF v.topic = AVSCAN_TOPIC /\ Field(v.payload, "status") # "scanned"
         THEN "filtered"
    ELSE IF topic = SUBMISSION_CREATE_TOPIC /\ Field(v.payload, "fileType") = "url"
         THEN "filtered"
    ELSE IF topic = SUBMISSION_CREATE_TOPIC THEN "processCreate"
    ELSE IF topic = AVSCAN_TOPIC THEN "processScan"
    ELSE "invalidTopic"

\* [mutant] the status and file type filters are missing
ClassifyNoFilter(topic, v) ==
    IF v.kind = "malformed" THEN "decodeError"
    ELSE IF v.kind = "null" THEN "typeError"
    ELSE IF v.topic # topic THEN "topicMismatch"
    ELSE IF v.payload = NoPayload THEN "typeError"
    ELSE IF topic = SUBMISSION_CREATE_TOPIC THEN "processCreate"
    ELSE IF topic = AVSCAN_TOPIC THEN "processScan"
    ELSE "invalidTopic"

\* What the callback does with a raw value that arrived on `topic`, up to
\* the call of co().
Classify(topic, v) ==
    IF v.kind = "malformed" THEN "decodeError"           \* JSON.parse throws
    ELSE IF v.kind = "null" THEN "typeError"             \* messageJSON.topic
    ELSE IF v.topic # topic THEN "topicMismatch"
    ELSE IF v.payload = NoPayload THEN "typeError"       \* payload.status / payload.fileType
    ELSE IF v.topic = AVSCAN_TOPIC /\ Field(v.payload, "status") # "scanned"
         THEN "filtered"
    ELSE IF topic = SUBMISSION_CREATE_TOPIC /\ Field(v.payload, "fileType") = "url"
         THEN "filtered"
    ELSE IF topic = SUBMISSION_CREATE_TOPIC THEN "processCreate"
    ELSE IF topic = AVSCAN_TOPIC THEN "processScan"
    ELSE "invalidTopic"

\* [mutant] Promise.map: the callbacks of all messages are called at once
CanStartAll(tp, o) ==
    /\ o \in batch[tp]
    /\ h[tp][o].st = "pending"
    /\ ~rejected[tp]

\* Promise.each: the callback of a message is called once the promises of
\* the callbacks of all earlier messages of the set are fulfilled.
CanStart(tp, o) ==
    /\ o \in batch[tp]
    /\ h[tp][o].st = "pending"
    /\ ~rejected[tp]
    /\ \A p \in batch[tp] : p < o => h[tp][p].st = "done"

\* the first position of a workflow: the code of the generator up to its
\* first yield
\* [mutant] processCreate does not look at payload.resource
EntryNoResourceCheck(topic, v) ==
    IF topic = SUBMISSION_CREATE_TOPIC THEN "getObject" ELSE "copyObject"

\* the first position of the workflow of the topic: processCreate returns
\* false at once for a resource other than "submission"
Entry(topic, v) ==
    IF topic = SUBMISSION_CREATE_TOPIC
    THEN IF Field(v.payload, "resource") # "submission" THEN "returned" ELSE "getObject"
    ELSE "copyObject"

Start(tp, o) ==
    /\ CanStart(tp, o)
    /\ LET v == log[tp][o]
           c == Classify(tp[1], v)
           m == h[tp][o]
       IN  CASE c = "decodeError" ->
                  /\ h' = [h EXCEPT ![tp][o] =
                             [m EXCEPT !.st = "done", !.outcome = c, !.logs = {"error"}]]
                  /\ UNCHANGED rejected
             [] c = "topicMismatch" ->
                  /\ h' = [h EXCEPT ![tp][o] =
                             [m EXCEPT !.st = "done", !.outcome = c, !.logs = {"error"}]]
                  /\ UNCHANGED rejected
             [] c = "filtered" ->
                  /\ h' = [h EXCEPT ![tp][o] =
                             [m EXCEPT !.st = "done", !.outcome = c, !.logs = {"debug"}]]
                  /\ UNCHANGED rejected
             [] c = "typeError" ->
                  \* the exception leaves the callback: Promise.each rejects
                  /\ h' = [h EXCEPT ![tp][o] = [m EXCEPT !.st = "done", !.outcome = c]]
                  /\ rejected' = [rejected EXCEPT ![tp] = TRUE]
             [] OTHER ->
                  /\ h' = [h EXCEPT ![tp][o] =
                             IF Entry(tp[1], v) = "returned"
                             THEN [m EXCEPT !.st = "returned", !.outcome = "fulfilled",
                                            !.ret = "false"]
                             ELSE [m EXCEPT !.st = Entry(tp[1], v),
                                            !.outcome = "running"]]
                  /\ UNCHANGED rejected
    /\ UNCHANGED <<log, batch, commits, s3, reviewTypes>>
(***************************************************************************)
(* Calls to the outside: S3, the scan service, the Submission API.         *)
(***************************************************************************)
NoBody == [none |-> TRUE]
\* an endpoint of an HTTP service, in the shape of a URL
Endpoint(service, path) == [host |-> service, bucket |-> "", key |-> path]
ANTIVIRUS_API == Endpoint("antivirus-api", <<>>)
SubmissionPath(id) == Endpoint("submission-api", <<"submissions", id>>)
ReviewsPath == Endpoint("submission-api", <<"reviews">>)
ReviewTypesPath(name) == Endpoint("submission-api", <<"reviewTypes", name>>)

\* one call: the operation, its result ("ok", "404" or "error"), its target
\* and its body
Call(op, res, target, body) == [op |-> op, res |-> res, target |-> target, body |-> body]
Result(ok) == IF ok THEN "ok" ELSE "error"

\* /.*amazonaws.*/.test(fileURL)
IsS3Url(u) == u.host = S3_HOST

\* the handling m after a call, at position st
After(m, st, call) ==
    [m EXCEPT !.st = st,
              !.trace = Append(@, call),
              !.outcome = IF st = "thrown" THEN "raised"
                          ELSE IF st = "returned" THEN "fulfilled" ELSE @]

At(tp, o, st) == o \in batch[tp] /\ h[tp][o].st = st

(***************************************************************************)
(* ProcessorService.processCreate                                          *)
(***************************************************************************)
\* [mutant] the key is built from the id alone, with a fixed extension
fileNameOfIdOnly(payload) == Key(payload.id, "bin")

\* const fileName = message.payload.id + '.' + message.payload.fileType
fileNameOf(payload) == Key(payload.id, payload.fileType)

\* [mutant] a file found in the DMZ bucket is downloaded and uploaded again
GetObjectAlwaysStages(tp, o) ==
    /\ At(tp, o, "getObject")
    /\ LET p == log[tp][o].payload
           k == fileNameOf(p)
           t == S3Url(DMZ_BUCKET, k)
       IN  \E res \in {"found", "404", "error"} :
             /\ res = "found" => k \in s3[DMZ_BUCKET]
             /\ res = "404" => k \notin s3[DMZ_BUCKET]
             /\ h' = [h EXCEPT ![tp][o] =
                        After(@, IF res = "error" THEN "thrown" ELSE "downloadFile",
                              Call("s3.getObject", IF res = "found" THEN "ok" ELSE res, t, NoBody))]
    /\ UNCHANGED <<log, batch, rejected, commits, s3, reviewTypes>>

\* [mutant] every error of the probe is taken for not-found
GetObjectAnyErrorIsNotFound(tp, o) ==
    /\ At(tp, o, "getObject")
    /\ LET p == log[tp][o].payload
           k == fileNameOf(p)
           t == S3Url(DMZ_BUCKET, k)
       IN  \E res \in {"found", "404", "error"} :
             /\ res = "found" => k \in s3[DMZ_BUCKET]
             /\ res = "404" => k \notin s3[DMZ_BUCKET]
             /\ h' = [h EXCEPT ![tp][o] =
                        After(@, IF res = "found" THEN "scanRequest" ELSE "downloadFile",
                              Call("s3.getObject", IF res = "found" THEN "ok" ELSE res, t, NoBody))]
    /\ UNCHANGED <<log, batch, rejected, commits, s3, reviewTypes>>

\* s3p.getObjectAsync on the DMZ bucket: found, 404, or another error
GetObject(tp, o) ==
    /\ At(tp, o, "getObject")
    /\ LET p == log[tp][o].payload
           k == fileNameOf(p)
           t == S3Url(DMZ_BUCKET, k)
       IN  \E res \in {"found", "404", "error"} :
             /\ res = "found" => k \in s3[DMZ_BUCKET]
             /\ res = "404" => k \notin s3[DMZ_BUCKET]
             /\ h' = [h EXCEPT ![tp][o] =
                        After(@, CASE res = "found" -> "scanRequest"
                                   [] res = "404" -> "downloadFile"
                                   [] OTHER -> "thrown",
                              Call("s3.getObject", IF res = "found" THEN "ok" ELSE res, t, NoBody))]
    /\ UNCHANGED <<log, batch, rejected, commits, s3, reviewTypes>>

\* helper.downloadFile(message.payload.url)
DownloadFile(tp, o) ==
    /\ At(tp, o, "downloadFile")
    /\ LET p == log[tp][o].payload
           op == IF IsS3Url(p.url) THEN "download.s3" ELSE "download.http"
       IN  \E ok \in BOOLEAN :
             h' = [h EXCEPT ![tp][o] =
                     After(@, IF ok THEN "upload" ELSE "thrown",
                           Call(op, Result(ok), p.url, NoBody))]
    /\ UNCHANGED <<log, batch, rejected, commits, s3, reviewTypes>>

\* s3p.uploadAsync to the DMZ bucket
Upload(tp, o) ==
    /\ At(tp, o, "upload")
    /\ LET p == log[tp][o].payload
           k == fileNameOf(p)
       IN  \E ok \in BOOLEAN :
             /\ h' = [h EXCEPT ![tp][o] =
                        After(@, IF ok THEN "scanRequest" ELSE "thrown",
                              Call("s3.upload", Result(ok), S3Url(DMZ_BUCKET, k), NoBody))]
             /\ s3' = IF ok THEN [s3 EXCEPT ![DMZ_BUCKET] = @ \cup {k}] ELSE s3
    /\ UNCHANGED <<log, batch, rejected, commits, reviewTypes>>

\* axios.post(config.ANTIVIRUS_API_URL, reqBody), then return true
ScanRequest(tp, o) ==
    /\ At(tp, o, "scanRequest")
    /\ LET p == log[tp][o].payload
           k == fileNameOf(p)
           reqBody == [submissionId |-> p.id, url |-> S3Url(DMZ_BUCKET, k),
                       fileName |-> k]
       IN  \E ok \in BOOLEAN :
             h' = [h EXCEPT ![tp][o] =
                     [After(@, IF ok THEN "returned" ELSE "thrown",
                            Call("scanRequest", Result(ok), ANTIVIRUS_API, reqBody))
                        EXCEPT !.ret = IF ok THEN "true" ELSE "none"]]
    /\ UNCHANGED <<log, batch, rejected, commits, s3, reviewTypes>>

(***************************************************************************)
(* ProcessorService.processScan                                            *)
(***************************************************************************)
\* [mutant] the verdict is read the wrong way round
destinationBucketInverted(payload) ==
    IF payload.isInfected THEN CLEAN_BUCKET ELSE QUARANTINE_BUCKET

\* the bucket the scanned file is moved to
destinationBucket(payload) ==
    IF ~payload.isInfected THEN CLEAN_BUCKET ELSE QUARANTINE_BUCKET

\* [mutant] a failed copy is ignored and the delete follows
CopyObjectIgnoreError(tp, o) ==
    /\ At(tp, o, "copyObject")
    /\ LET p == log[tp][o].payload
           k == p.fileName
           dst == destinationBucket(p)
       IN  \E ok \in BOOLEAN :
             /\ ok => k \in s3[DMZ_BUCKET]
             /\ h' = [h EXCEPT ![tp][o] =
                        After(@, "deleteObject",
                              Call("s3.copyObject", Result(ok), S3Url(dst, k),
                                   [CopySource |-> S3Url(DMZ_BUCKET, k)]))]
             /\ s3' = IF ok THEN [s3 EXCEPT ![dst] = @ \cup {k}] ELSE s3
    /\ UNCHANGED <<log, batch, rejected, commits, reviewTypes>>

\* helper.moveFile, first call: s3p.copyObjectAsync.  The copy of a key that
\* the source bucket does not hold fails.
CopyObject(tp, o) ==
    /\ At(tp, o, "copyObject")
    /\ LET p == log[tp][o].payload
           k == p.fileName
           dst == destinationBucket(p)
       IN  \E ok \in BOOLEAN :
             /\ ok => k \in s3[DMZ_BUCKET]
             /\ h' = [h EXCEPT ![tp][o] =
                        After(@, IF ok THEN "deleteObject" ELSE "thrown",
                              Call("s3.copyObject", Result(ok), S3Url(dst, k),
                                   [CopySource |-> S3Url(DMZ_BUCKET, k)]))]
             /\ s3' = IF ok THEN [s3 EXCEPT ![dst] = @ \cup {k}] ELSE s3
    /\ UNCHANGED <<log, batch, rejected, commits, reviewTypes>>

\* [mutant] a failed delete is ignored and processScan goes on
DeleteObjectIgnoreError(tp, o) ==
    /\ At(tp, o, "deleteObject")
    /\ LET k == log[tp][o].payload.fileName
       IN  \E ok \in BOOLEAN :
             /\ h' = [h EXCEPT ![tp][o] =
                        After(@, "patch",
                              Call("s3.deleteObject", Result(ok), S3Url(DMZ_BUCKET, k), NoBody))]
             /\ s3' = IF ok THEN [s3 EXCEPT ![DMZ_BUCKET] = @ \ {k}] ELSE s3
    /\ UNCHANGED <<log, batch, rejected, commits, reviewTypes>>

\* helper.moveFile, second call: s3p.deleteObjectAsync
DeleteObject(tp, o) ==
    /\ At(tp, o, "deleteObject")
    /\ LET k == log[tp][o].payload.fileName
       IN  \E ok \in BOOLEAN :
             /\ h' = [h EXCEPT ![tp][o] =
                        After(@, IF ok THEN "patch" ELSE "thrown",
                              Call("s3.deleteObject", Result(ok), S3Url(DMZ_BUCKET, k), NoBody))]
             /\ s3' = IF ok THEN [s3 EXCEPT ![DMZ_BUCKET] = @ \ {k}] ELSE s3
    /\ UNCHANGED <<log, batch, rejected, commits, reviewTypes>>

\* reqToSubmissionAPI('PATCH', .../submissions/{submissionId}, {url})
PatchSubmission(tp, o) ==
    /\ At(tp, o, "patch")
    /\ LET p == log[tp][o].payload
           movedS3Obj == S3Url(destinationBucket(p), p.fileName)
       IN  \E ok \in BOOLEAN :
             h' = [h EXCEPT ![tp][o] =
                     After(@, IF ok THEN "getreviewTypeId" ELSE "thrown",
                           Call("PATCH", Result(ok), SubmissionPath(p.submissionId),
                                [url |-> movedS3Obj]))]
    /\ UNCHANGED <<log, batch, rejected, commits, s3, reviewTypes>>

\* [mutant] the cache is never consulted: every lookup issues the GET
GetreviewTypeIdNoCache(tp, o) ==
    /\ At(tp, o, "getreviewTypeId")
    /\ \E res \in {"error", "empty"} \cup ReviewTypeIds :
         /\ h' = [h EXCEPT ![tp][o] =
                    [After(@, IF res = "error" THEN "thrown" ELSE "postReview",
                           Call("GET", Result(res # "error"), ReviewTypesPath(AV_SCAN), NoBody))
                       EXCEPT !.typeId = CASE res = "error" -> "none"
                                           [] res = "empty" -> "null"
                                           [] OTHER -> res]]
         /\ reviewTypes' = IF res \in ReviewTypeIds
                           THEN [name \in {AV_SCAN} |-> res]
                           ELSE reviewTypes
    /\ UNCHANGED <<log, batch, rejected, commits, s3>>

\* [mutant] an empty result set is cached as well
GetreviewTypeIdCachesNull(tp, o) ==
    /\ At(tp, o, "getreviewTypeId")
    /\ IF AV_SCAN \in DOMAIN reviewTypes
       THEN /\ h' = [h EXCEPT ![tp][o] =
                       [@ EXCEPT !.st = "postReview", !.typeId = reviewTypes[AV_SCAN]]]
            /\ UNCHANGED reviewTypes
       ELSE \E res \in {"error", "empty"} \cup ReviewTypeIds :
              /\ h' = [h EXCEPT ![tp][o] =
                         [After(@, IF res = "error" THEN "thrown" ELSE "postReview",
                                Call("GET", Result(res # "error"), ReviewTypesPath(AV_SCAN), NoBody))
                            EXCEPT !.typeId = CASE res = "error" -> "none"
                                                [] res = "empty" -> "null"
                                                [] OTHER -> res]]
              /\ reviewTypes' = IF res = "error" THEN reviewTypes
                                ELSE [name \in {AV_SCAN} |->
                                        IF res = "empty" THEN "null" ELSE res]
    /\ UNCHANGED <<log, batch, rejected, commits, s3>>

\* [mutant] an empty result set is an error
GetreviewTypeIdThrowsOnEmpty(tp, o) ==
    /\ At(tp, o, "getreviewTypeId")
    /\ IF AV_SCAN \in DOMAIN reviewTypes
       THEN /\ h' = [h EXCEPT ![tp][o] =
                       [@ EXCEPT !.st = "postReview", !.typeId = reviewTypes[AV_SCAN]]]
            /\ UNCHANGED reviewTypes
       ELSE \E res \in {"error", "empty"} \cup ReviewTypeIds :
              /\ h' = [h EXCEPT ![tp][o] =
                         [After(@, IF res \in ReviewTypeIds THEN "postReview" ELSE "thrown",
                                Call("GET", Result(res # "error"), ReviewTypesPath(AV_SCAN), NoBody))
                            EXCEPT !.typeId = CASE res = "error" -> "none"
                                                [] res = "empty" -> "null"
                                                [] OTHER -> res]]
              /\ reviewTypes' = IF res \in ReviewTypeIds
                                THEN [name \in {AV_SCAN} |-> res]
                                ELSE reviewTypes
    /\ UNCHANGED <<log, batch, rejected, commits, s3>>

\* helper.getreviewTypeId(AV_SCAN): the cached id, or a GET whose first
\* result is cached; null when the result set is empty
GetreviewTypeId(tp, o) ==
    /\ At(tp, o, "getreviewTypeId")
    /\ IF AV_SCAN \in DOMAIN reviewTypes
       THEN /\ h' = [h EXCEPT ![tp][o] =
                       [@ EXCEPT !.st = "postReview", !.typeId = reviewTypes[AV_SCAN]]]
            /\ UNCHANGED reviewTypes
       ELSE \E res \in {"error", "empty"} \cup ReviewTypeIds :
              /\ h' = [h EXCEPT ![tp][o] =
                         [After(@, IF res = "error" THEN "thrown" ELSE "postReview",
                                Call("GET", Result(res # "error"), ReviewTypesPath(AV_SCAN), NoBody))
                            EXCEPT !.typeId = CASE res = "error" -> "none"
                                                [] res = "empty" -> "null"
                                                [] OTHER -> res]]
              /\ reviewTypes' = IF res \in ReviewTypeIds
                                THEN [name \in {AV_SCAN} |-> res]
                                ELSE reviewTypes
    /\ UNCHANGED <<log, batch, rejected, commits, s3>>

\* reqToSubmissionAPI('POST', .../reviews, {...}); reviewerId is a fresh uuid
PostReview(tp, o) ==
    /\ At(tp, o, "postReview")
    /\ LET p == log[tp][o].payload
           body == [score |-> IF p.isInfected THEN 0 ELSE 100,
                    submissionId |-> p.submissionId,
                    scoreCardId |-> REVIEW_SCORECARDID,
                    typeId |-> h[tp][o].typeId]
       IN  \E ok \in BOOLEAN :
             h' = [h EXCEPT ![tp][o] =
                     After(@, IF ok THEN "returned" ELSE "thrown",
                           Call("POST", Result(ok), ReviewsPath, body))]
    /\ UNCHANGED <<log, batch, rejected, commits, s3, reviewTypes>>

(***************************************************************************)
(* dataHandler: the handlers of the promise of co().                       *)
(***************************************************************************)
\* .then: commit the offset
Then(tp, o) ==
    /\ At(tp, o, "returned")
    /\ commits' = Append(commits, CommitRecord(tp, o))
    /\ h' = [h EXCEPT ![tp][o].st = "done"]
    /\ UNCHANGED <<log, batch, rejected, s3, reviewTypes>>

\* [mutant] the offset is committed in the error handler as well
CatchAndCommit(tp, o) ==
    /\ At(tp, o, "thrown")
    /\ commits' = Append(commits, CommitRecord(tp, o))
    /\ h' = [h EXCEPT ![tp][o] = [@ EXCEPT !.st = "done", !.logs = @ \cup {"error"}]]
    /\ UNCHANGED <<log, batch, rejected, s3, reviewTypes>>

\* .catch: log the error, tag the spans
Catch(tp, o) ==
    /\ At(tp, o, "thrown")
    /\ h' = [h EXCEPT ![tp][o] = [@ EXCEPT !.st = "done", !.logs = @ \cup {"error"}]]
    /\ UNCHANGED <<log, batch, rejected, commits, s3, reviewTypes>>

Next ==
    \/ \E T \in SUBSET TP : Poll(T)
    \/ \E tp \in TP : \E o \in Offsets(tp) : Start(tp, o)
    \/ \E tp \in TP : \E o \in Offsets(tp) : GetObject(tp, o)
    \/ \E tp \in TP : \E o \in Offsets(tp) : DownloadFile(tp, o)
    \/ \E tp \in TP : \E o \in Offsets(tp) : Upload(tp, o)
    \/ \E tp \in TP : \E o \in Offsets(tp) : ScanRequest(tp, o)
    \/ \E tp \in TP : \E o \in Offsets(tp) : CopyObject(tp, o)
    \/ \E tp \in TP : \E o \in Offsets(tp) : DeleteObject(tp, o)
    \/ \E tp \in TP : \E o \in Offsets(tp) : PatchSubmission(tp, o)
    \/ \E tp \in TP : \E o \in Offsets(tp) : GetreviewTypeId(tp, o)
    \/ \E tp \in TP : \E o \in Offsets(tp) : PostReview(tp, o)
    \/ \E tp \in TP : \E o \in Offsets(tp) : Then(tp, o)
    \/ \E tp \in TP : \E o \in Offsets(tp) : Catch(tp, o)

Spec == Init /\ [][Next]_vars

(***************************************************************************)
(* Properties.                                                             *)
(***************************************************************************)
\* the messages of the log, as <<subscription, offset>>
Published == UNION {{<<tp, o>> : o \in Offsets(tp)} : tp \in TP}
\* the messages of the set handed to the handler that come after m
Later(m) == {<<m[1], p>> : p \in {q \in batch[m[1]] : q > m[2]}}
Value(m) == log[m[1]][m[2]]
H(m) == h[m[1]][m[2]]
\* the callback of the message was called in its latest delivery
Handled(m) == H(m).st \notin {"none", "pending"}
\* the message is between the start of its handling and its resolution
InFlight(m) == m[2] \in batch[m[1]] /\ H(m).st \notin {"none", "pending", "done"}
IsCommitted(m) ==
    [topic |-> m[1][1], partition |-> m[1][2], offset |-> m[2]] \in Range(commits)
\* the next message of the set, if any, can be handled
NextCanStart(m) ==
    (m[2] + 1 \in batch[m[1]] /\ h[m[1]][m[2] + 1].st = "pending")
        => CanStart(m[1], m[2] + 1)

\* C1: an offset is committed only for a message that was routed to a
\* workflow which ran to completion without raising; never for a message that
\* failed to decode, had a mismatched topic, was filtered or whose workflow
\* raised.
C1_CommitOnlyAfterWorkflowSuccess ==
    \A m \in Published :
        IsCommitted(m) =>
            /\ H(m).outcome = "fulfilled"
            /\ Classify(m[1][1], Value(m)) \in {"processCreate", "processScan"}

\* witness of C1: one message failed in its workflow and was resolved, and an
\* offset was committed
C1_Witness ==
    \E m \in Published :
        /\ H(m).outcome = "raised" /\ H(m).st = "done" /\ ~IsCommitted(m)
        /\ commits # <<>>

\* C2: for every message whose workflow completed, once the message is
\* resolved a commit with the topic and partition of the set and exactly the
\* offset of the message has been issued, before the next message is handled;
\* no other commit is issued.
C2_CommitCarriesOffsetBeforeNext ==
    /\ \A m \in Published :
         (H(m).outcome = "fulfilled" /\ H(m).st = "done") => IsCommitted(m)
    /\ \A m \in Published : \A n \in Later(m) :
         ( /\ m[2] \in batch[m[1]]
           /\ H(m).outcome = "fulfilled" /\ Handled(n) ) => IsCommitted(m)
    /\ Len(commits) =
         Cardinality({m \in Published : H(m).outcome = "fulfilled" /\ H(m).st = "done"})

\* witness of C2: the first message of a set completed and was committed, and
\* the second message is being handled
C2_Witness ==
    \E m \in Published : \E n \in Later(m) :
        /\ n[2] = m[2] + 1 /\ m[2] \in batch[m[1]]
        /\ H(m).outcome = "fulfilled" /\ IsCommitted(m)
        /\ InFlight(n)

\* C3 (as stated): the commits of a partition are issued in increasing offset
\* order, and every message at or below the highest committed offset was
\* processed successfully.
C3_CommitNeverStepsOverUnprocessed ==
    /\ \A i \in DOMAIN commits : \A j \in DOMAIN commits :
         ( /\ i < j /\ commits[i].topic = commits[j].topic
           /\ commits[i].partition = commits[j].partition )
           => commits[i].offset < commits[j].offset
    /\ \A m \in Published :
         m[2] < Position(m[1]) => H(m).outcome = "fulfilled"

\* C4 (as stated): a message whose workflow raised is delivered again by a
\* later fetch.  A fetch returns the offsets from Position on, and Position
\* never decreases, so the message can only be delivered again while its
\* offset is not below Position.
C4_FailedMessageIsRedelivered ==
    \A m \in Published :
        (H(m).outcome = "raised" /\ H(m).st = "done") => m[2] >= Position(m[1])

\* C5: within a message set, the handling of a message starts only after the
\* handling of every earlier message of the set has resolved, whatever its
\* outcome.
C5_SequentialWithinBatch ==
    \A m \in Published : \A n \in Later(m) :
        (m[2] \in batch[m[1]] /\ Handled(n)) => H(m).st = "done"

\* witness of C5: the first message of a set failed in its workflow and the
\* second one is being handled
C5_Witness ==
    \E m \in Published : \E n \in Later(m) :
        /\ n[2] = m[2] + 1 /\ m[2] \in batch[m[1]]
        /\ H(m).outcome = "raised" /\ H(m).st = "done"
        /\ InFlight(n)

Undecodable(v) == v.kind \in {"malformed", "null"} \/ v.payload = NoPayload

\* C7 (as stated): for every raw value that cannot be decoded as an envelope,
\* no exception leaves the handler, the error is logged, no call is made, no
\* offset is committed and the rest of the set is still handled.
C7_UndecodableIsContained ==
    \A m \in Published :
        (Undecodable(Value(m)) /\ Handled(m)) =>
            /\ H(m).st = "done"
            /\ H(m).outcome # "typeError"
            /\ "error" \in H(m).logs
            /\ H(m).trace = <<>>
            /\ ~IsCommitted(m)
            /\ (m[2] \in batch[m[1]] => NextCanStart(m))

\* C8: a decoded message whose envelope topic differs from the arrival topic
\* is dropped: no workflow is invoked, no call is made, no offset is
\* committed, and the next message of the set can be handled.
C8_TopicMismatchIsDropped ==
    \A m \in Published :
        ( /\ Value(m).kind = "object" /\ Value(m).topic # m[1][1]
          /\ Handled(m) ) =>
            /\ H(m).st = "done"
            /\ H(m).outcome = "topicMismatch"
            /\ H(m).trace = <<>>
            /\ H(m).ret = "none"
            /\ ~IsCommitted(m)
            /\ (m[2] \in batch[m[1]] => NextCanStart(m))

\* witness of C8: a message with a mismatched topic was dropped and the next
\* message of the set is being handled
C8_Witness ==
    \E m \in Published : \E n \in Later(m) :
        /\ n[2] = m[2] + 1 /\ m[2] \in batch[m[1]]
        /\ Value(m).kind = "object" /\ Value(m).topic # m[1][1]
        /\ H(m).outcome = "topicMismatch"
        /\ InFlight(n)

\* a scan message whose status is not "scanned", or a create message whose
\* file type is "url"
Filterable(m) ==
    LET v == Value(m) IN
    /\ v.kind = "object" /\ v.topic = m[1][1] /\ v.payload # NoPayload
    /\ \/ m[1][1] = AVSCAN_TOPIC /\ Field(v.payload, "status") # "scanned"
       \/ m[1][1] = SUBMISSION_CREATE_TOPIC /\ Field(v.payload, "fileType") = "url"

\* C9: a scan message whose status is not "scanned" and a create message
\* whose file type is "url" cause no storage call, no HTTP call, no workflow
\* and no commit, and a message that was filtered is filtered again when it
\* is delivered again.
C9_FilteredIsNoOp ==
    \A m \in Published :
        /\ (Filterable(m) /\ Handled(m)) =>
              /\ H(m).st = "done"
              /\ H(m).outcome = "filtered"
              /\ H(m).trace = <<>>
              /\ H(m).ret = "none"
              /\ ~IsCommitted(m)
        /\ (Handled(m) /\ H(m).prev = "filtered") => H(m).outcome = "filtered"

\* witness of C9: a filtered message of each topic was delivered a second
\* time and filtered again
C9_Witness ==
    \E m \in Published : \E n \in Published :
        /\ m[1][1] = AVSCAN_TOPIC /\ n[1][1] = SUBMISSION_CREATE_TOPIC
        /\ Filterable(m) /\ H(m).prev = "filtered" /\ H(m).outcome = "filtered"
        /\ Filterable(n) /\ H(n).prev = "filtered" /\ H(n).outcome = "filtered"

Downloads == {"download.http", "download.s3"}
\* a create message with resource "submission" that is routed to processCreate
Staging(m) ==
    /\ Classify(m[1][1], Value(m)) = "processCreate"
    /\ Value(m).payload.resource = "submission"

\* C10: processCreate of a submission probes the DMZ bucket for the key
\* {id}.{fileType}; on not-found it makes one download from payload.url, then
\* one upload to the DMZ bucket under the key, and only then one scan
\* request; when the key is found it makes no download and no upload and one
\* scan request.  The scan request carries submissionId = id and fileName =
\* the key, and the function returns true.
C10_ProcessCreateStagesOnceThenScans ==
    \A m \in Published :
        (Staging(m) /\ Handled(m)) =>
            LET p == Value(m).payload
                k == <<p.id, p.fileType>>
                dmz == [host |-> S3_HOST, bucket |-> DMZ_BUCKET, key |-> k]
                tr == H(m).trace
                scans == {i \in DOMAIN tr : tr[i].op = "scanRequest"}
            IN  /\ \A i \in DOMAIN tr : i > 1 => tr[i - 1].res \in {"ok", "404"}
                /\ Len(tr) >= 1 =>
                     /\ tr[1].op = "s3.getObject" /\ tr[1].target = dmz
                     /\ tr[1].res = "ok" => Len(tr) <= 2
                     /\ tr[1].res = "404" => Len(tr) <= 4
                /\ (Len(tr) >= 2 /\ tr[1].res = "ok") => tr[2].op = "scanRequest"
                /\ (Len(tr) >= 2 /\ tr[1].res = "404") =>
                     tr[2].op \in Downloads /\ tr[2].target = p.url
                /\ (Len(tr) >= 3 /\ tr[1].res = "404") =>
                     tr[3].op = "s3.upload" /\ tr[3].target = dmz
                /\ (Len(tr) >= 4 /\ tr[1].res = "404") => tr[4].op = "scanRequest"
                /\ \A i \in scans :
                     /\ tr[i].target = ANTIVIRUS_API
                     /\ tr[i].body.submissionId = p.id
                     /\ tr[i].body.fileName = k
                /\ H(m).outcome = "fulfilled" =>
                     /\ H(m).ret = "true"
                     /\ Cardinality(scans) = 1
                     /\ tr[Len(tr)].op = "scanRequest" /\ tr[Len(tr)].res = "ok"
                     /\ Len(tr) = IF tr[1].res = "ok" THEN 2 ELSE 4

\* witness of C10: in one message set, processCreate returned true once after
\* staging the file and once after finding it staged
C10_Witness ==
    \E m \in Published : \E n \in Published :
        /\ Staging(m) /\ Staging(n)
        /\ H(m).ret = "true" /\ Len(H(m).trace) = 4 /\ H(m).trace[1].res = "404"
        /\ H(n).ret = "true" /\ Len(H(n).trace) = 2 /\ H(n).trace[1].res = "ok"

\* a create message routed to processCreate whose resource is not "submission"
NotSubmission(m) ==
    /\ Classify(m[1][1], Value(m)) = "processCreate"
    /\ Value(m).payload.resource # "submission"

\* C11: processCreate of a payload whose resource is not "submission" returns
\* false and does nothing else: no probe of the DMZ bucket, no download, no
\* upload, no scan request.
C11_OtherResourceReturnsFalse ==
    \A m \in Published :
        (NotSubmission(m) /\ Handled(m)) =>
            /\ H(m).ret = "false"
            /\ H(m).outcome = "fulfilled"
            /\ H(m).trace = <<>>

\* witness of C11: a review message was handled and resolved, after a
\* submission was staged in the same set
C11_Witness ==
    \E m \in Published : \E n \in Published :
        /\ NotSubmission(m) /\ H(m).st = "done" /\ H(m).ret = "false"
        /\ Staging(n) /\ H(n).ret = "true" /\ s3[DMZ_BUCKET] # {}

\* a scan message that is routed to processScan
Moving(m) == Classify(m[1][1], Value(m)) = "processScan"
\* the calls of a handling that are of operation op
CallsOf(m, op) == {i \in DOMAIN H(m).trace : H(m).trace[i].op = op}

\* C12: processScan chooses the destination and the score from isInfected
\* alone: not infected, the file is copied from the DMZ bucket to the clean
\* bucket, the PATCH carries the clean URL and the review has score 100;
\* infected, the quarantine bucket, the quarantine URL and score 0.  The
\* review carries the submissionId of the payload and scoreCardId "30001850".
C12_VerdictDecidesDestinationAndScore ==
    \A m \in Published :
        (Moving(m) /\ Handled(m)) =>
            LET p == Value(m).payload
                tr == H(m).trace
                dest == IF p.isInfected THEN "quarantine" ELSE "clean"
                moved == [host |-> S3_HOST, bucket |-> dest, key |-> p.fileName]
                staged == [host |-> S3_HOST, bucket |-> "dmz", key |-> p.fileName]
            IN  /\ \A i \in CallsOf(m, "s3.copyObject") :
                     tr[i].target = moved /\ tr[i].body.CopySource = staged
                /\ \A i \in CallsOf(m, "s3.deleteObject") : tr[i].target = staged
                /\ \A i \in CallsOf(m, "PATCH") :
                     /\ tr[i].body.url = moved
                     /\ tr[i].target = SubmissionPath(p.submissionId)
                /\ \A i \in CallsOf(m, "POST") :
                     /\ tr[i].body.score = IF p.isInfected THEN 0 ELSE 100
                     /\ tr[i].body.submissionId = p.submissionId
                     /\ tr[i].body.scoreCardId = "30001850"
                /\ H(m).outcome = "fulfilled" =>
                     /\ CallsOf(m, "s3.copyObject") # {}
                     /\ CallsOf(m, "PATCH") # {}
                     /\ CallsOf(m, "POST") # {}
                     /\ p.fileName \in s3[dest]

\* witness of C12: the scan of an infected file was processed to the end,
\* and the file is in the quarantine bucket only
C12_Witness ==
    \E m \in Published :
        /\ Moving(m) /\ Value(m).payload.isInfected
        /\ H(m).outcome = "fulfilled" /\ H(m).st = "done"
        /\ \E i \in CallsOf(m, "POST") : H(m).trace[i].body.score = 0
        /\ Value(m).payload.fileName \in s3[QUARANTINE_BUCKET]
        /\ Value(m).payload.fileName \notin s3[CLEAN_BUCKET] \cup s3[DMZ_BUCKET]

\* the handling of m made a call in this step
Called(m) == Len(h'[m[1]][m[2]].trace) > Len(H(m).trace)
\* the call the handling of m made in this step
NewCall(m) == h'[m[1]][m[2]].trace[Len(h'[m[1]][m[2]].trace)]
\* the lookup of the review type id of m resolved in this step
LookedUp(m) == H(m).st = "getreviewTypeId" /\ h'[m[1]][m[2]].st # "getreviewTypeId"

\* C13: a lookup that gets a non-empty result set caches the first id; from
\* then on no GET for the review type is issued, every lookup returns the
\* cached id, and the cached entry is neither changed nor removed.
C13_CachedIdIsReusedWithoutGet ==
    [][\A m \in Published :
         /\ (LookedUp(m) /\ h'[m[1]][m[2]].typeId \notin {"none", "null"}) =>
                /\ AV_SCAN \in DOMAIN reviewTypes'
                /\ reviewTypes'[AV_SCAN] = h'[m[1]][m[2]].typeId
         /\ AV_SCAN \in DOMAIN reviewTypes =>
                /\ reviewTypes' = reviewTypes
                /\ Called(m) => NewCall(m).op # "GET"
                /\ LookedUp(m) =>
                     /\ h'[m[1]][m[2]].st = "postReview"
                     /\ h'[m[1]][m[2]].typeId = reviewTypes[AV_SCAN]
      ]_vars

\* witness of C13: the handling of a scan message holds the cached id and
\* issued no GET for it
C13_Witness ==
    \E m \in Published :
        /\ Moving(m) /\ H(m).st = "postReview"
        /\ CallsOf(m, "GET") = {}
        /\ AV_SCAN \in DOMAIN reviewTypes /\ H(m).typeId = reviewTypes[AV_SCAN]

\* C14: a lookup made while the cache has no entry issues the GET; when the
\* result set is empty it returns null and leaves the cache without an
\* entry, so that the next lookup issues the GET again, and a lookup whose
\* result set is not empty returns its id.
C14_EmptyResultIsNotCached ==
    [][\A m \in Published :
         (LookedUp(m) /\ AV_SCAN \notin DOMAIN reviewTypes) =>
            /\ Called(m)
            /\ NewCall(m).op = "GET"
            /\ NewCall(m).target = ReviewTypesPath("Virus Scan")
            /\ NewCall(m).res = "ok" => h'[m[1]][m[2]].typeId # "none"
            /\ h'[m[1]][m[2]].typeId = "null" =>
                 /\ reviewTypes' = reviewTypes
                 /\ h'[m[1]][m[2]].st = "postReview"
            /\ h'[m[1]][m[2]].typeId \notin {"none", "null"} =>
                 /\ AV_SCAN \in DOMAIN reviewTypes'
                 /\ h'[m[1]][m[2]].st = "postReview"
      ]_vars

\* witness of C14: a lookup got an empty result set: the handling holds null
\* and the cache has no entry
C14_Witness ==
    \E m \in Published :
        /\ Moving(m) /\ H(m).st = "postReview" /\ H(m).typeId = "null"
        /\ \E i \in CallsOf(m, "GET") : H(m).trace[i].res = "ok"
        /\ AV_SCAN \notin DOMAIN reviewTypes

\* the scan messages that processScan handles for the key k
Movers(k) == {n \in Published : Moving(n) /\ Value(n).payload.fileName = k}
\* the create messages that processCreate stages under the key k
Stagers(k) ==
    {n \in Published : Staging(n)
                         /\ <<Value(n).payload.id, Value(n).payload.fileType>> = k}

\* C15: the move can be retried: when a scan message is handled again after
\* an attempt that stopped after its copy (the destination bucket holds the
\* object, and no other scan message names the key), the copy of the new
\* attempt finds its source: the object is in the DMZ bucket.
C15_MoveIsSafeToRetry ==
    \A m \in Published :
        LET p == Value(m).payload
        IN  ( /\ Moving(m) /\ Movers(p.fileName) = {m}
              /\ H(m).st = "copyObject"
              /\ p.fileName \in s3[IF p.isInfected THEN QUARANTINE_BUCKET ELSE CLEAN_BUCKET] )
            => p.fileName \in s3[DMZ_BUCKET]

\* C16: the key is the same in both workflows.  For a submission staged by
\* processCreate under {id}.{fileType} and the one scan message that names
\* that key: the scan request of processCreate carries the key as fileName;
\* once processCreate has completed, the copy of processScan reads that key
\* from the DMZ bucket and writes it to the bucket of the verdict, its delete
\* leaves the DMZ bucket without the key, and from then on the key stays
\* absent from the DMZ bucket, present in the destination (quarantine iff
\* infected) and absent from the other bucket.
C16_ScanMovesTheStagedObject ==
    [][\A m \in Published :
         Moving(m) =>
           LET pm == Value(m).payload
               k == pm.fileName
               dest == IF pm.isInfected THEN QUARANTINE_BUCKET ELSE CLEAN_BUCKET
               other == IF pm.isInfected THEN CLEAN_BUCKET ELSE QUARANTINE_BUCKET
           IN  \A c \in Stagers(k) :
                 (Stagers(k) = {c} /\ Movers(k) = {m} /\ H(c).outcome = "fulfilled") =>
                    /\ \E i \in CallsOf(c, "scanRequest") :
                          H(c).trace[i].body.fileName = k
                    /\ k \notin s3[DMZ_BUCKET] => k \notin s3'[DMZ_BUCKET]
                    /\ k \in s3[dest] => k \in s3'[dest]
                    /\ k \notin s3'[other]
                    /\ (Called(m) /\ NewCall(m).res = "ok"
                          /\ NewCall(m).op = "s3.copyObject") =>
                          /\ NewCall(m).body.CopySource.key = k
                          /\ NewCall(m).body.CopySource.bucket = DMZ_BUCKET
                          /\ k \in s3[DMZ_BUCKET] /\ k \in s3'[dest]
                    /\ (Called(m) /\ NewCall(m).res = "ok"
                          /\ NewCall(m).op = "s3.deleteObject") =>
                          k \notin s3'[DMZ_BUCKET]
      ]_vars

\* witness of C16: a file was staged by processCreate and then moved by
\* processScan as infected; both completed, and only the quarantine bucket
\* holds the object
C16_Witness ==
    \E c \in Published : \E m \in Published :
        /\ Staging(c) /\ H(c).outcome = "fulfilled" /\ H(c).st = "done"
        /\ Len(H(c).trace) = 4
        /\ Moving(m) /\ H(m).outcome = "fulfilled" /\ H(m).st = "done"
        /\ Value(m).payload.isInfected
        /\ Value(m).payload.fileName
              = <<Value(c).payload.id, Value(c).payload.fileType>>
        /\ Value(m).payload.fileName \in s3[QUARANTINE_BUCKET]
        /\ Value(m).payload.fileName \notin s3[DMZ_BUCKET] \cup s3[CLEAN_BUCKET]

\* the probe of the DMZ bucket by the handling of m failed with an error
\* other than not-found
ProbeFailed(m) ==
    /\ Staging(m) /\ Handled(m)
    /\ H(m).trace # <<>>
    /\ H(m).trace[1].op = "s3.getObject" /\ H(m).trace[1].res = "error"

\* C17: when the probe of the DMZ bucket fails with an error other than
\* not-found, processCreate raises it: no download, no upload and no scan
\* request follow, and the offset of the message is not committed.
C17_ProbeErrorIsRaised ==
    \A m \in Published :
        ProbeFailed(m) =>
            /\ Len(H(m).trace) = 1
            /\ H(m).st \in {"thrown", "done"}
            /\ H(m).outcome = "raised"
            /\ H(m).ret = "none"
            /\ ~IsCommitted(m)

\* witness of C17: the probe failed while the DMZ bucket was empty, the
\* message is resolved, and nothing was staged
C17_Witness ==
    \E m \in Published :
        /\ ProbeFailed(m) /\ H(m).st = "done" /\ "error" \in H(m).logs
        /\ s3[DMZ_BUCKET] = {}

\* the calls of processScan in their order; the GET is left out when the
\* review type id is cached
ScanSteps == <<"s3.copyObject", "s3.deleteObject", "PATCH", "GET", "POST">>
ScanStepsCached == <<"s3.copyObject", "s3.deleteObject", "PATCH", "POST">>
\* the sequence s starts with the operations of the trace tr
FollowsSteps(tr, s) ==
    /\ Len(tr) <= Len(s)
    /\ \A i \in DOMAIN tr : tr[i].op = s[i]

\* C18: processScan makes its calls in the order copy, delete, PATCH, lookup
\* of the review type id, POST.  A call that fails is the last one: the
\* error is raised, no offset is committed for the message, and what the
\* completed calls did stays: the destination bucket keeps the copy.
C18_ScanStepsInOrderAbortOnError ==
    \A m \in Published :
        (Moving(m) /\ Handled(m)) =>
            LET p == Value(m).payload
                tr == H(m).trace
                dest == IF p.isInfected THEN QUARANTINE_BUCKET ELSE CLEAN_BUCKET
            IN  /\ FollowsSteps(tr, ScanSteps) \/ FollowsSteps(tr, ScanStepsCached)
                /\ \A i \in DOMAIN tr : i < Len(tr) => tr[i].res = "ok"
                /\ H(m).typeId # "none" => Len(tr) >= 3
                /\ \A i \in CallsOf(m, "POST") :
                     H(m).typeId # "none" /\ tr[i].body.typeId = H(m).typeId
                /\ (tr # <<>> /\ tr[Len(tr)].res # "ok") =>
                     /\ H(m).outcome = "raised"
                     /\ H(m).st \in {"thrown", "done"}
                     /\ ~IsCommitted(m)
                /\ H(m).outcome = "raised" => tr[Len(tr)].res = "error"
                /\ H(m).outcome = "fulfilled" =>
                     /\ Len(tr) >= 4
                     /\ tr[Len(tr)].op = "POST" /\ tr[Len(tr)].res = "ok"
                /\ (tr # <<>> /\ tr[1].res = "ok") => p.fileName \in s3[dest]

\* witness of C18: the review could not be posted after the move, the patch
\* and the lookup; the message is resolved without a commit and the object
\* stays moved
C18_Witness ==
    \E m \in Published :
        /\ Moving(m) /\ H(m).st = "done" /\ H(m).outcome = "raised"
        /\ Len(H(m).trace) = 5
        /\ H(m).trace[5].op = "POST" /\ H(m).trace[5].res = "error"
        /\ ~IsCommitted(m)
        /\ LET p == Value(m).payload
           IN  /\ p.fileName \in s3[destinationBucket(p)]
               /\ p.fileName \notin s3[DMZ_BUCKET]

\* some bucket holds the key k
Held(k) == \E b \in Buckets : k \in s3[b]

\* C19: the move deletes the source only after the copy succeeded; a copy
\* that fails leaves the buckets as they were and no delete follows; and an
\* object that is being moved or was moved is never in neither bucket: the
\* source or the destination holds it.
C19_MoveNeverLosesTheObject ==
    [][\A m \in Published :
         Moving(m) =>
           LET p == Value(m).payload
               k == p.fileName
               dest == IF p.isInfected THEN QUARANTINE_BUCKET ELSE CLEAN_BUCKET
               after == h'[m[1]][m[2]]
           IN  /\ (Called(m) /\ NewCall(m).op = "s3.deleteObject") =>
                    /\ Len(H(m).trace) = 1
                    /\ H(m).trace[1].op = "s3.copyObject" /\ H(m).trace[1].res = "ok"
                    /\ k \in s3[dest]
               /\ (Called(m) /\ NewCall(m).op = "s3.copyObject"
                     /\ NewCall(m).res # "ok") =>
                    /\ s3' = s3
                    /\ after.st = "thrown"
               /\ (k \in s3[DMZ_BUCKET] /\ k \notin s3'[DMZ_BUCKET]) =>
                    k \in s3'[CLEAN_BUCKET] \cup s3'[QUARANTINE_BUCKET]
               /\ Held(k) => \E b \in Buckets : k \in s3'[b]
               /\ (after.trace # <<>> /\ after.trace[1].res = "ok") =>
                    k \in s3'[DMZ_BUCKET] \cup s3'[dest]
      ]_vars

\* witness of C19: the move of a scanned file is complete: copied, then
\* deleted from the DMZ bucket
C19_Witness ==
    \E m \in Published :
        /\ Moving(m) /\ H(m).st = "patch"
        /\ Len(H(m).trace) = 2 /\ H(m).trace[2].op = "s3.deleteObject"
        /\ Value(m).payload.fileName \in s3[destinationBucket(Value(m).payload)]
        /\ Value(m).payload.fileName \notin s3[DMZ_BUCKET]

\* C20: when the lookup of the "Virus Scan" review type returns null,
\* processScan does not fail on it: it posts the review with typeId null,
\* and when the POST succeeds the workflow completes and the offset of the
\* message is committed.
C20_NullTypeIdIsPosted ==
    \A m \in Published :
        (Moving(m) /\ Handled(m) /\ H(m).typeId = "null") =>
            LET tr == H(m).trace
            IN  /\ H(m).st \in {"postReview", "returned", "thrown", "done"}
                /\ \A i \in CallsOf(m, "POST") : tr[i].body.typeId = "null"
                /\ H(m).st # "postReview" =>
                     tr[Len(tr)].op = "POST" /\ tr[Len(tr)].target = ReviewsPath
                /\ tr[Len(tr)].res = "ok" /\ tr[Len(tr)].op = "POST" =>
                     H(m).outcome = "fulfilled"
                /\ (H(m).outcome = "fulfilled" /\ H(m).st = "done") => IsCommitted(m)

\* witness of C20: a review with typeId null was posted, the workflow
\* completed and the offset is committed
C20_Witness ==
    \E m \in Published :
        /\ Moving(m) /\ H(m).typeId = "null"
        /\ H(m).outcome = "fulfilled" /\ H(m).st = "done"
        /\ \E i \in CallsOf(m, "POST") :
              H(m).trace[i].body.typeId = "null" /\ H(m).trace[i].res = "ok"
        /\ IsCommitted(m)

====
